---------------------------- MODULE Spec2Model ----------------------------
(***************************************************************************)
(* A model of the SGF tokenizer (package parse: lex, lexer.run and the    *)
(* state functions) and of the tree builder SGFGame.Parse (parse.go).      *)
(*                                                                         *)
(* Strings are sequences of one-character strings; byte offsets (Pos) are  *)
(* 0-based as in the Go code, so input[p] of the code is input[p+1] here.  *)
(* The documents drawn are ASCII, so every rune is one byte wide.          *)
(***************************************************************************)
EXTENDS Integers, Sequences, FiniteSets, TLC

VARIABLES
    input,         \* the argument of Parse
    l,             \* the lexer struct: input, state, pos, start, width
    lpc,           \* where the tokenizer goroutine stands
    items,         \* l.items: the tokens handed off and not yet received
    lastPos,       \* l.lastPos
    i,             \* Parse's local i, the token returned by nextItem
    ppc,           \* where Parse stands
    currentNode,   \* Parse's local currentNode (a node id, nil when unset)
    prop,          \* Parse's local prop
    parsingSetup,  \* Parse's local parsingSetup
    parsingGame,   \* Parse's local parsingGame
    nodeStack,     \* Parse's local nodeStack
    gameInfo,      \* sgf.gameInfo
    gameTree,      \* sgf.gameTree (a node id, nil when absent)
    errors,        \* sgf.errors
    heap,          \* the Nodes allocated by new(Node); a node's id is its index
    emitted,       \* history: every token the tokenizer has handed off, in order
    received,      \* history: every token nextItem has returned, in order
    history,       \* history: currentNode and parsingGame after each token consumed
    query          \* the last NthNode call on the returned record and its results

vars == <<input, l, lpc, items, lastPos, i, ppc, currentNode, prop,
          parsingSetup, parsingGame, nodeStack, gameInfo, gameTree, errors,
          heap, emitted, received, history, query>>

lexVars == <<l, lpc, emitted>>

parseVars == <<i, ppc, currentNode, prop, parsingSetup, parsingGame,
               nodeStack, gameInfo, gameTree, errors, heap, received, lastPos,
               history, query>>

---------------------------------------------------------------------------
(* Bounds of the model.                                                    *)

\* every string over Alphabet of at most MaxLen characters is a document
MaxLen == 4

\* every prefix of a named document, followed by at most MaxTail characters
\* of Alphabet, is a document
MaxTail == 0

\* every document made of the opening (;b[];b[] and at most MaxChunks chunks,
\* each one of "(;b[]", ";b[]", ")"
MaxChunks == 3

\* NthNode is called with every n from -1 to MaxQuery
MaxQuery == 3

---------------------------------------------------------------------------
(* Runes and strings.                                                      *)

nil == 0

eof == "<eof>"

LowerLetters ==
    <<"a", "b", "c", "d", "e", "f", "g", "h", "i", "j", "k", "l", "m",
      "n", "o", "p", "q", "r", "s", "t", "u", "v", "w", "x", "y", "z">>

UpperLetters ==
    <<"A", "B", "C", "D", "E", "F", "G", "H", "I", "J", "K", "L", "M",
      "N", "O", "P", "Q", "R", "S", "T", "U", "V", "W", "X", "Y", "Z">>

Range(s) == {s[k] : k \in DOMAIN s}

Letters == Range(LowerLetters) \cup Range(UpperLetters)

Digits == {"0", "1", "2", "3", "4", "5", "6", "7", "8", "9"}

Punctuation == {"(", ")", ";", "[", "]", "|", ".", ",", "-", ":"}

\* unicode.IsPrint: letters, digits, punctuation and the ASCII space;
\* not the tab, not the line terminators, not eof (-1)
IsPrint(r) == r \in Letters \cup Digits \cup Punctuation \cup {" "}

\* strings.ToUpper on one rune
ToUpperRune(r) ==
    IF r \in Range(LowerLetters)
    THEN UpperLetters[CHOOSE k \in DOMAIN LowerLetters : LowerLetters[k] = r]
    ELSE r

ToUpper(s) == [k \in DOMAIN s |-> ToUpperRune(s[k])]

isSpace(r) == r = " " \/ r = "\t"

isEndOfLine(r) == r = "\r" \/ r = "\n"

isWhiteSpace(r) == isSpace(r) \/ isEndOfLine(r)

isAlpha(r) == r \in Letters

isPropertyValueChar(r) == IsPrint(r) /\ r # "]"

\* s[a:b] of the code
Slice(s, a, b) == SubSeq(s, a + 1, b)

RECURSIVE strip_newlines(_)
strip_newlines(s) ==
    IF s = <<>> THEN <<>>
    ELSE IF Head(s) = "\n" \/ Head(s) = "\r" THEN strip_newlines(Tail(s))
    ELSE <<Head(s)>> \o strip_newlines(Tail(s))

---------------------------------------------------------------------------
(* Tokens.                                                                 *)

itemEOF == "itemEOF"
itemError == "itemError"
itemLeftParen == "itemLeftParen"
itemRightParen == "itemRightParen"
itemSemiColon == "itemSemiColon"
itemPropertyName == "itemPropertyName"
itemPropertyValue == "itemPropertyValue"

\* The text of an Error token is a formatted message; it is kept as its parts:
\* the message, the position printed in it and the quoted context (or rune).
NoText == [msg |-> "", position |-> -1, quote |-> <<>>]

Item(t, p, v) == [typ |-> t, pos |-> p, val |-> v, text |-> NoText]

ErrorItem(p, e) == [typ |-> itemError, pos |-> p, val |-> <<>>, text |-> e]

NoItem == Item("none", 0, <<>>)

---------------------------------------------------------------------------
(* The lexer's helpers.  Each takes the lexer struct and returns the new   *)
(* struct, or the rune read.                                               *)

\* the rune l.next() returns
nextRune(lx) ==
    IF lx.pos >= Len(lx.input) THEN eof ELSE lx.input[lx.pos + 1]

\* the lexer after l.next()
next(lx) ==
    IF lx.pos >= Len(lx.input)
    THEN [lx EXCEPT !.width = 0]
    ELSE [lx EXCEPT !.width = 1, !.pos = lx.pos + 1]

backup(lx) == [lx EXCEPT !.pos = lx.pos - lx.width]

\* peek is next then backup: the position is restored. The width it leaves is
\* overwritten by the next call of next before any backup reads it, so the
\* struct is left as it was.
peek(lx) == nextRune(lx)

ignore(lx) == [lx EXCEPT !.start = lx.pos]

advance(lx) == ignore(next(lx))

\* the item emit sends
emitItem(lx, t) ==
    LET v == Slice(lx.input, lx.start, lx.pos)
    IN Item(t, lx.start, IF t = itemPropertyName THEN ToUpper(v) ELSE v)

\* emit's last statement, run once the send has completed
emitDone(lx) == [lx EXCEPT !.start = lx.pos]

CtxWidth == 6

quoteStart(lx) == IF lx.pos - CtxWidth < 0 THEN 0 ELSE lx.pos - CtxWidth

quoteEnd(lx) ==
    IF lx.pos + CtxWidth >= Len(lx.input)
    THEN Len(lx.input) - 1
    ELSE lx.pos + CtxWidth

\* l.input[l.pos:end] aborts the program (slice bounds out of range) when
\* end < l.pos; l.input[start:l.pos] is always in range
quoteContextPanics(lx) == quoteEnd(lx) < lx.pos

quoteContext(lx) ==
    Slice(lx.input, quoteStart(lx), lx.pos) \o <<"|">>
        \o Slice(lx.input, lx.pos, quoteEnd(lx))

QuoteErrorContext(lx, message) ==
    [msg |-> message, position |-> lx.pos, quote |-> quoteContext(lx)]

RECURSIVE acceptAlphaRun(_)
acceptAlphaRun(lx) ==
    IF isAlpha(nextRune(lx)) THEN acceptAlphaRun(next(lx)) ELSE backup(next(lx))

RECURSIVE acceptPropertyValueRun(_)
acceptPropertyValueRun(lx) ==
    IF isPropertyValueChar(nextRune(lx))
    THEN acceptPropertyValueRun(next(lx))
    ELSE backup(next(lx))

RECURSIVE skipWhiteSpace(_)
skipWhiteSpace(lx) ==
    IF isWhiteSpace(peek(lx)) THEN skipWhiteSpace(next(lx)) ELSE lx

\* lexBegin's loop: stop at a "(" or at the end of the input
RECURSIVE seekLeftParen(_)
seekLeftParen(lx) ==
    IF lx.pos < Len(lx.input) /\ lx.input[lx.pos + 1] = "(" THEN lx
    ELSE IF nextRune(lx) = eof THEN next(lx)
    ELSE seekLeftParen(next(lx))

---------------------------------------------------------------------------
(* The state functions of the tokenizer.  A state function that sends a    *)
(* token blocks in the send, so it is cut there: X is the function up to   *)
(* its first send, X_rest is the function from the completed send to its   *)
(* return or to its next send.  Each returns the lexer struct, the place   *)
(* the goroutine stands at and the tokens it hands off.                    *)

Step(lx, pc, out) == [l |-> lx, lpc |-> pc, out |-> out]

\* run's loop assigns the returned state function to l.state
Return(lx, fn) == Step([lx EXCEPT !.state = fn], "run", <<>>)

\* errorf sends an Error token whose position is l.start
errorf(lx, e) == Step(lx, "errorf", <<ErrorItem(lx.start, e)>>)

\* errorf(l.QuoteErrorContext(message)): the argument is evaluated first
errorfQuoted(lx, message) ==
    IF quoteContextPanics(lx)
    THEN Step(lx, "panic", <<>>)
    ELSE errorf(lx, QuoteErrorContext(lx, message))

\* errorf with a slip: it returns lexBegin, so the scan goes on after the
\* Error token
errorf_rest_resume(lx) == Step([lx EXCEPT !.state = "lexBegin"], "run", <<>>)

\* errorf returns nil once its send has completed, and run's loop ends
errorf_rest(lx) == Step([lx EXCEPT !.state = "nil"], "done", <<>>)

\* emit(itemEOF) completes, the state function returns nil, run's loop ends
emitEOF_rest(lx) == Step([emitDone(lx) EXCEPT !.state = "nil"], "done", <<>>)

lexBegin(lx) ==
    LET s == seekLeftParen(lx)
    IN IF s.pos < Len(s.input) /\ s.input[s.pos + 1] = "("
       THEN Return(s, "lexLeftParen")
       ELSE Step(s, "emitEOF", <<emitItem(s, itemEOF)>>)

lexLeftParen(lx) ==
    LET s == [lx EXCEPT !.pos = lx.pos + 1]
    IN Step(s, "emit", <<emitItem(s, itemLeftParen)>>)

\* lexLeftParen after its send with a slip: a property name is let through
\* where the semicolon is missing
lexLeftParen_rest_lenient(lx) ==
    LET s == emitDone(lx)
    IN IF peek(s) = ";" THEN Return(s, "lexSemiColon")
       ELSE IF isAlpha(peek(s)) THEN Return(s, "lexPropertyName")
       ELSE errorfQuoted(s, "semi-colon expected here")

lexLeftParen_rest(lx) ==
    LET s == emitDone(lx)
    IN IF peek(s) # ";"
       THEN errorfQuoted(s, "semi-colon expected here")
       ELSE Return(s, "lexSemiColon")

lexRightParen(lx) ==
    LET s == [lx EXCEPT !.pos = lx.pos + 1]
    IN Step(s, "emit", <<emitItem(s, itemRightParen)>>)

lexRightParen_rest(lx) ==
    LET s == emitDone(lx)
    IN CASE peek(s) = "(" -> Return(s, "lexLeftParen")
         [] isAlpha(peek(s)) -> Return(s, "lexPropertyName")
         [] peek(s) = ")" -> Return(s, "lexRightParen")
         [] peek(s) = ";" -> Return(s, "lexSemiColon")
         [] OTHER -> Step(s, "emitEOF", <<emitItem(s, itemEOF)>>)

lexSemiColon(lx) ==
    LET s == [lx EXCEPT !.pos = lx.pos + 1]
    IN Step(s, "emit", <<emitItem(s, itemSemiColon)>>)

\* lexSemiColon after its send with a slip: a second semicolon is lexed as
\* a Semicolon of its own
lexSemiColon_rest_twice(lx) ==
    LET s == emitDone(lx)
    IN IF peek(s) = ";"
       THEN Return(s, "lexSemiColon")
       ELSE IF ~isAlpha(peek(s))
       THEN errorfQuoted(s, "property expected here")
       ELSE Return(s, "lexPropertyName")

lexSemiColon_rest(lx) ==
    LET s == emitDone(lx)
        t == IF peek(s) = ";" THEN advance(s) ELSE s
    IN IF ~isAlpha(peek(t))
       THEN errorfQuoted(t, "property expected here")
       ELSE Return(t, "lexPropertyName")

lexPropertyName(lx) ==
    LET s == acceptAlphaRun(lx)
    IN Step(s, "emit", <<emitItem(s, itemPropertyName)>>)

lexPropertyName_rest(lx) ==
    LET s == emitDone(lx)
    IN IF peek(s) # "["
       THEN errorfQuoted(s, "left bracket '[' expected here")
       ELSE Return(s, "lexLeftBracket")

lexLeftBracket(lx) ==
    LET s == acceptPropertyValueRun(advance(lx))
    IN Step(s, "emit", <<emitItem(s, itemPropertyValue)>>)

lexLeftBracket_rest(lx) ==
    LET s == emitDone(lx)
        t == skipWhiteSpace(advance(s))
    IN IF peek(s) # "]"
       THEN errorf(s, [msg |-> "right bracket ']' expected here",
                       position |-> s.pos, quote |-> <<>>])
       ELSE CASE peek(t) = "[" -> Return(t, "lexLeftBracket")
              [] peek(t) = ";" -> Return(t, "lexSemiColon")
              [] peek(t) = "(" -> Return(t, "lexLeftParen")
              [] peek(t) = ")" -> Return(t, "lexRightParen")
              [] isAlpha(peek(t)) -> Return(t, "lexPropertyName")
              [] OTHER ->
                  errorf(t, [msg |-> "property or node or parenthesis expected here",
                             position |-> t.pos, quote |-> <<peek(t)>>])

\* lex: the struct the tokenizer goroutine starts from
lex(in) ==
    [input |-> strip_newlines(in), state |-> "lexBegin",
     pos |-> 0, start |-> 0, width |-> 0]

\* one step of the tokenizer goroutine from where it stands
LexStep(lx, pc) ==
    CASE pc = "errorf" -> errorf_rest(lx)
      [] pc = "emitEOF" -> emitEOF_rest(lx)
      [] pc = "run" /\ lx.state = "lexBegin" -> lexBegin(lx)
      [] pc = "run" /\ lx.state = "lexLeftParen" -> lexLeftParen(lx)
      [] pc = "run" /\ lx.state = "lexRightParen" -> lexRightParen(lx)
      [] pc = "run" /\ lx.state = "lexSemiColon" -> lexSemiColon(lx)
      [] pc = "run" /\ lx.state = "lexPropertyName" -> lexPropertyName(lx)
      [] pc = "run" /\ lx.state = "lexLeftBracket" -> lexLeftBracket(lx)
      [] pc = "emit" /\ lx.state = "lexLeftParen" -> lexLeftParen_rest(lx)
      [] pc = "emit" /\ lx.state = "lexRightParen" -> lexRightParen_rest(lx)
      [] pc = "emit" /\ lx.state = "lexSemiColon" -> lexSemiColon_rest(lx)
      [] pc = "emit" /\ lx.state = "lexPropertyName" -> lexPropertyName_rest(lx)
      [] pc = "emit" /\ lx.state = "lexLeftBracket" -> lexLeftBracket_rest(lx)

\* the tokenizer run to its end with every send taken at once
RECURSIVE LexRun(_, _, _)
LexRun(lx, pc, acc) ==
    IF pc \in {"done", "panic"}
    THEN [tokens |-> acc, lpc |-> pc]
    ELSE LET r == LexStep(lx, pc) IN LexRun(r.l, r.lpc, acc \o r.out)

Tokens(in) == LexRun(lex(in), "run", <<>>)

---------------------------------------------------------------------------
(* The game record: properties, nodes, the header map, the node stack.     *)

Property(n, v) == [name |-> n, value |-> v]

\* Property{}
ZeroProperty == Property(<<>>, <<>>)

\* new(Node)
ZeroNode ==
    [point |-> ZeroProperty, properties |-> <<>>, variations |-> <<>>,
     next |-> nil]

\* Node.AddProperty with a slip: an entry of the same name is replaced
NodeAddProperty_overwrite(h, n, p) ==
    IF p.name = <<"B">> \/ p.name = <<"W">>
    THEN [h EXCEPT ![n].point = p]
    ELSE IF \E k \in DOMAIN h[n].properties : h[n].properties[k].name = p.name
    THEN [h EXCEPT ![n].properties =
             [k \in DOMAIN @ |-> IF @[k].name = p.name THEN p ELSE @[k]]]
    ELSE [h EXCEPT ![n].properties = Append(@, p)]

\* Node.AddProperty on node n of heap h
NodeAddProperty(h, n, p) ==
    IF p.name = <<"B">> \/ p.name = <<"W">>
    THEN [h EXCEPT ![n].point = p]
    ELSE [h EXCEPT ![n].properties = Append(@, p)]

\* Node.NewNode: the heap after it; the node returned is the last allocated
NewNode(h, n) == [Append(h, ZeroNode) EXCEPT ![n].next = Len(h) + 1]

\* Node.NewVariation with a slip: the new child is put first
NewVariation_prepend(h, n) ==
    [Append(h, ZeroNode) EXCEPT ![n].variations = <<Len(h) + 1>> \o @]

\* Node.NewVariation with a slip: the new child is also made the next node
NewVariation_alsoNext(h, n) ==
    [Append(h, ZeroNode) EXCEPT ![n].variations = Append(@, Len(h) + 1),
                                ![n].next = Len(h) + 1]

\* Node.NewVariation: the heap after it; the node returned is the last allocated
NewVariation(h, n) ==
    [Append(h, ZeroNode) EXCEPT ![n].variations = Append(@, Len(h) + 1)]

\* a map with no entry
EmptyMap == [k \in {} |-> <<>>]

\* GameInfo.AddProperty
GameInfoAddProperty(gi, p) ==
    LET key == ToUpper(p.name)
    IN [k \in DOMAIN gi \cup {key} |-> IF k = key THEN p.value ELSE gi[k]]

\* SGFGame.AddError with a slip: the message is appended twice
AddError_twice(errs, msg) == Append(Append(errs, msg), msg)

\* SGFGame.AddError: errors.New(msg) appended
AddError(errs, msg) == Append(errs, msg)

\* SGFGame.NodeCount's loop from node n of heap h
RECURSIVE CountFrom(_, _)
CountFrom(h, n) == IF n = nil THEN 0 ELSE 1 + CountFrom(h, h[n].next)

\* SGFGame.NodeCount
NodeCount(h, root) == CountFrom(h, root)

\* SGFGame.NthNode's loop: n - 1 steps along next
RECURSIVE WalkNext(_, _, _)
WalkNext(h, node, n) ==
    IF n > 1 THEN WalkNext(h, h[node].next, n - 1) ELSE node

\* SGFGame.NthNode with a slip: n = 0 is let through
NthNode_fromZero(h, root, n) ==
    IF n < 0
    THEN [node |-> nil, err |-> "n less than 1"]
    ELSE IF n > NodeCount(h, root)
    THEN [node |-> nil, err |-> "n greater than node count"]
    ELSE [node |-> WalkNext(h, root, n), err |-> ""]

\* SGFGame.NthNode
NthNode(h, root, n) ==
    IF n < 1
    THEN [node |-> nil, err |-> "n less than 1"]
    ELSE IF n > NodeCount(h, root)
    THEN [node |-> nil, err |-> "n greater than node count"]
    ELSE [node |-> WalkNext(h, root, n), err |-> ""]

\* The LIFO stack used by Parse. Pop of an empty stack returns nil.
Push(s, x) == Append(s, x)

Top(s) == IF s = <<>> THEN nil ELSE s[Len(s)]

Pop(s) == IF s = <<>> THEN s ELSE SubSeq(s, 1, Len(s) - 1)

---------------------------------------------------------------------------
(* Parse's loop body, one operator per case of the switch.  P holds the    *)
(* record under construction and Parse's locals; each case returns P as    *)
(* the case leaves it, with ppc the place Parse goes to next.              *)

\* the LeftParen case with a slip: the current node is not pushed
caseLeftParen_noPush(P) ==
    IF P.parsingGame
    THEN IF P.currentNode = nil
         THEN [P EXCEPT !.ppc = "panic"]
         ELSE [P EXCEPT !.heap = NewVariation(P.heap, P.currentNode),
                        !.currentNode = Len(P.heap) + 1,
                        !.ppc = "nextItem"]
    ELSE [P EXCEPT !.ppc = "nextItem"]

\* the LeftParen case with a slip: the new variation node is pushed, not the
\* node that was current
caseLeftParen_pushNew(P) ==
    IF P.parsingGame
    THEN IF P.currentNode = nil
         THEN [P EXCEPT !.ppc = "panic"]
         ELSE [P EXCEPT !.nodeStack = Push(P.nodeStack, Len(P.heap) + 1),
                        !.heap = NewVariation(P.heap, P.currentNode),
                        !.currentNode = Len(P.heap) + 1,
                        !.ppc = "nextItem"]
    ELSE [P EXCEPT !.ppc = "nextItem"]

caseLeftParen(P) ==
    IF P.parsingGame
    THEN IF P.currentNode = nil
         THEN [P EXCEPT !.ppc = "panic"]
         ELSE [P EXCEPT !.nodeStack = Push(P.nodeStack, P.currentNode),
                        !.heap = NewVariation(P.heap, P.currentNode),
                        !.currentNode = Len(P.heap) + 1,
                        !.ppc = "nextItem"]
    ELSE [P EXCEPT !.ppc = "nextItem"]

caseRightParen(P) ==
    IF P.parsingGame
    THEN [P EXCEPT !.nodeStack = Pop(P.nodeStack),
                   !.currentNode = IF Top(P.nodeStack) # nil
                                   THEN Top(P.nodeStack)
                                   ELSE P.currentNode,
                   !.ppc = "nextItem"]
    ELSE [P EXCEPT !.ppc = "nextItem"]

\* the Semicolon case with a slip: no header phase, the first Semicolon
\* allocates the root
caseSemiColon_noHeader(P) ==
    IF ~P.parsingGame
    THEN [P EXCEPT !.parsingSetup = FALSE,
                   !.parsingGame = TRUE,
                   !.heap = Append(P.heap, ZeroNode),
                   !.gameTree = Len(P.heap) + 1,
                   !.currentNode = Len(P.heap) + 1,
                   !.ppc = "nextItem"]
    ELSE [P EXCEPT !.heap = NewNode(P.heap, P.currentNode),
                   !.currentNode = Len(P.heap) + 1,
                   !.ppc = "nextItem"]

\* the Semicolon case with a slip: the first Semicolon already allocates a
\* root node
caseSemiColon_rootAtFirst(P) ==
    IF ~P.parsingSetup /\ ~P.parsingGame
    THEN [P EXCEPT !.parsingSetup = TRUE,
                   !.heap = Append(P.heap, ZeroNode),
                   !.gameTree = Len(P.heap) + 1,
                   !.ppc = "nextItem"]
    ELSE IF ~P.parsingGame
    THEN [P EXCEPT !.parsingSetup = FALSE,
                   !.parsingGame = TRUE,
                   !.heap = Append(P.heap, ZeroNode),
                   !.gameTree = Len(P.heap) + 1,
                   !.currentNode = Len(P.heap) + 1,
                   !.ppc = "nextItem"]
    ELSE IF P.currentNode = nil
    THEN [P EXCEPT !.ppc = "panic"]
    ELSE [P EXCEPT !.heap = NewNode(P.heap, P.currentNode),
                   !.currentNode = Len(P.heap) + 1,
                   !.ppc = "nextItem"]

\* the Semicolon case with a slip: the Header phase is not closed when the
\* root is allocated
caseSemiColon_keepSetup(P) ==
    IF ~P.parsingSetup /\ ~P.parsingGame
    THEN [P EXCEPT !.parsingSetup = TRUE, !.ppc = "nextItem"]
    ELSE IF ~P.parsingGame
    THEN [P EXCEPT !.parsingGame = TRUE,
                   !.heap = Append(P.heap, ZeroNode),
                   !.gameTree = Len(P.heap) + 1,
                   !.currentNode = Len(P.heap) + 1,
                   !.ppc = "nextItem"]
    ELSE IF P.currentNode = nil
    THEN [P EXCEPT !.ppc = "panic"]
    ELSE [P EXCEPT !.heap = NewNode(P.heap, P.currentNode),
                   !.currentNode = Len(P.heap) + 1,
                   !.ppc = "nextItem"]

caseSemiColon(P) ==
    IF ~P.parsingSetup /\ ~P.parsingGame
    THEN [P EXCEPT !.parsingSetup = TRUE, !.ppc = "nextItem"]
    ELSE IF ~P.parsingGame
    THEN [P EXCEPT !.parsingSetup = FALSE,
                   !.parsingGame = TRUE,
                   !.heap = Append(P.heap, ZeroNode),
                   !.gameTree = Len(P.heap) + 1,
                   !.currentNode = Len(P.heap) + 1,
                   !.ppc = "nextItem"]
    ELSE IF P.currentNode = nil
    THEN [P EXCEPT !.ppc = "panic"]
    ELSE [P EXCEPT !.heap = NewNode(P.heap, P.currentNode),
                   !.currentNode = Len(P.heap) + 1,
                   !.ppc = "nextItem"]

casePropertyName(P, it) ==
    [P EXCEPT !.prop = Property(it.val, <<>>), !.ppc = "nextItem"]

casePropertyValue(P, it) ==
    LET p == [P.prop EXCEPT !.value = it.val]
    IN IF P.parsingSetup
       THEN [P EXCEPT !.prop = p,
                      !.gameInfo = GameInfoAddProperty(P.gameInfo, p),
                      !.ppc = "nextItem"]
       ELSE IF P.currentNode = nil
       THEN [P EXCEPT !.prop = p, !.ppc = "panic"]
       ELSE [P EXCEPT !.prop = p,
                      !.heap = NodeAddProperty(P.heap, P.currentNode, p),
                      !.ppc = "nextItem"]

\* the Error case with a slip: the loop is left, the message is not recorded
caseError_dropped(P, it) == [P EXCEPT !.ppc = "done"]

caseError(P, it) ==
    [P EXCEPT !.errors = AddError(P.errors, it.text), !.ppc = "done"]

caseEOF(P) == [P EXCEPT !.ppc = "done"]

\* the switch on i.typ
Switch(P, it) ==
    CASE it.typ = itemLeftParen -> caseLeftParen(P)
      [] it.typ = itemRightParen -> caseRightParen(P)
      [] it.typ = itemSemiColon -> caseSemiColon(P)
      [] it.typ = itemPropertyName -> casePropertyName(P, it)
      [] it.typ = itemPropertyValue -> casePropertyValue(P, it)
      [] it.typ = itemError -> caseError(P, it)
      [] it.typ = itemEOF -> caseEOF(P)

\* Parse's locals and the record as Parse finds them on entry
EmptyParse ==
    [currentNode |-> nil, prop |-> ZeroProperty, parsingSetup |-> FALSE,
     parsingGame |-> FALSE, nodeStack |-> <<>>, gameInfo |-> EmptyMap,
     gameTree |-> nil, errors |-> <<>>, heap |-> <<>>, ppc |-> "nextItem"]

---------------------------------------------------------------------------
(* The documents parsed.                                                   *)

Alphabet == {"(", ")", ";", "[", "]", "b", " "}

Strings(n) == UNION {[1..k -> Alphabet] : k \in 0..n}

HeaderKeys == {<<"K", "E", "Y">>, <<"G", "M">>, <<"B">>}

HeaderValues == {<<"v", "a", "l", "u", "e">>, <<"1">>, <<>>}

\* (;KEY[value];B[aa])
DocMove(key, value) ==
    <<"(", ";">> \o key \o <<"[">> \o value
        \o <<"]", ";", "B", "[", "a", "a", "]", ")">>

\* (;GM[1];B[aa](;W[bb])(;W[cc]))
DocVariations ==
    <<"(", ";", "G", "M", "[", "1", "]", ";", "B", "[", "a", "a", "]", "(", ";", "W", "[", "b", "b", "]", ")", "(", ";", "W", "[", "c", "c", "]", ")", ")">>

\* (;GM[1];AB[aa][bb])
DocMultiTree ==
    <<"(", ";", "G", "M", "[", "1", "]", ";", "A", "B", "[", "a", "a", "]", "[", "b", "b", "]", ")">>

\* (;AB[aa][bb])
DocMultiHeader ==
    <<"(", ";", "A", "B", "[", "a", "a", "]", "[", "b", "b", "]", ")">>

\* (;GM[1];B[aa][bb])
DocMultiMove ==
    <<"(", ";", "G", "M", "[", "1", "]", ";", "B", "[", "a", "a", "]", "[", "b", "b", "]", ")">>

\* (;KEY[unterminated
DocUnterminated ==
    <<"(", ";", "K", "E", "Y", "[", "u", "n", "t", "e", "r", "m", "i", "n", "a", "t", "e", "d">>

\* (;GM[1]<CR><LF>;B[aa])
DocNewline ==
    <<"(", ";", "G", "M", "[", "1", "]", "\r", "\n", ";", "B", "[", "a", "a", "]", ")">>

\* (;GM[1];B[aa];W[bb];B[cc])
DocMainLine ==
    <<"(", ";", "G", "M", "[", "1", "]", ";", "B", "[", "a", "a", "]", ";", "W", "[", "b", "b", "]", ";", "B", "[", "c", "c", "]", ")">>

\* (;GM[1];B[aa](;W[bb](;B[cc])(;B[dd]))(;W[ee]))
DocNested ==
    <<"(", ";", "G", "M", "[", "1", "]", ";", "B", "[", "a", "a", "]", "(", ";", "W", "[", "b", "b", "]", "(", ";", "B", "[", "c", "c", "]", ")", "(", ";", "B", "[", "d", "d", "]", ")", ")", "(", ";", "W", "[", "e", "e", "]", ")", ")">>

\* (;gm[1] c[x];b[aa] w[bb])
DocSpaced ==
    <<"(", ";", "g", "m", "[", "1", "]", " ", "c", "[", "x", "]", ";", "b", "[", "a", "a", "]", " ", "w", "[", "b", "b", "]", ")">>

\* (;;GM[1];;B[aa])
DocDoubled ==
    <<"(", ";", ";", "G", "M", "[", "1", "]", ";", ";", "B", "[", "a", "a", "]", ")">>

\* (;GM[1];AB[aa][bb](W[cc]))
DocNoSemicolon ==
    <<"(", ";", "G", "M", "[", "1", "]", ";", "A", "B", "[", "a", "a", "]", "[", "b", "b", "]", "(", "W", "[", "c", "c", "]", ")", ")">>

NamedDocs ==
    {DocMove(k, v) : k \in HeaderKeys, v \in HeaderValues}
        \cup {DocVariations, DocMultiTree, DocMultiHeader, DocMultiMove,
              DocUnterminated, DocNewline, DocMainLine, DocNested,
              DocSpaced, DocDoubled, DocNoSemicolon}

\* (;b[];b[]
ChunkOpening ==
    <<"(", ";", "b", "[", "]", ";", "b", "[", "]">>

Chunks ==
    {<<"(", ";", "b", "[", "]">>,
     <<";", "b", "[", "]">>,
     <<")">>}

RECURSIVE ChunkDocs(_)
ChunkDocs(n) ==
    IF n = 0 THEN {ChunkOpening}
    ELSE ChunkDocs(n - 1) \cup {d \o c : d \in ChunkDocs(n - 1), c \in Chunks}

Documents ==
    Strings(MaxLen)
        \cup ChunkDocs(MaxChunks)
        \cup UNION {{SubSeq(d, 1, n) \o t :
                        n \in 0..Len(d), t \in Strings(MaxTail)} :
                     d \in NamedDocs}

---------------------------------------------------------------------------
(* The specification.                                                      *)

\* no NthNode call yet
NoQuery == [n |-> 0, count |-> 0, node |-> nil, err |-> ""]

Init ==
    /\ input \in Documents
    /\ l = lex(input)
    /\ lpc = "run"
    /\ items = <<>>
    /\ lastPos = 0
    /\ i = NoItem
    /\ ppc = EmptyParse.ppc
    /\ currentNode = EmptyParse.currentNode
    /\ prop = EmptyParse.prop
    /\ parsingSetup = EmptyParse.parsingSetup
    /\ parsingGame = EmptyParse.parsingGame
    /\ nodeStack = EmptyParse.nodeStack
    /\ gameInfo = EmptyParse.gameInfo
    /\ gameTree = EmptyParse.gameTree
    /\ errors = EmptyParse.errors
    /\ heap = EmptyParse.heap
    /\ emitted = <<>>
    /\ received = <<>>
    /\ history = <<>>
    /\ query = NoQuery

\* Parse has returned
Returned == ppc = "done"

\* an abort of either goroutine ends the program
Running == lpc # "panic" /\ ppc # "panic"

\* l.items with a slip: a buffered channel, a send completes at once
SendDone_buffered == TRUE

\* l.items is unbuffered: a send completes when the token has been received
SendDone == items = <<>>

\* the tokenizer goroutine takes the step r
LexAction(r) ==
    /\ l' = r.l
    /\ lpc' = r.lpc
    /\ items' = items \o r.out
    /\ emitted' = emitted \o r.out
    /\ UNCHANGED <<input, parseVars>>

LexBegin ==
    /\ Running /\ lpc = "run" /\ l.state = "lexBegin"
    /\ LexAction(lexBegin(l))

LexLeftParen ==
    /\ Running /\ lpc = "run" /\ l.state = "lexLeftParen"
    /\ LexAction(lexLeftParen(l))

LexLeftParenRest ==
    /\ Running /\ lpc = "emit" /\ l.state = "lexLeftParen" /\ SendDone
    /\ LexAction(lexLeftParen_rest(l))

LexRightParen ==
    /\ Running /\ lpc = "run" /\ l.state = "lexRightParen"
    /\ LexAction(lexRightParen(l))

LexRightParenRest ==
    /\ Running /\ lpc = "emit" /\ l.state = "lexRightParen" /\ SendDone
    /\ LexAction(lexRightParen_rest(l))

LexSemiColon ==
    /\ Running /\ lpc = "run" /\ l.state = "lexSemiColon"
    /\ LexAction(lexSemiColon(l))

LexSemiColonRest ==
    /\ Running /\ lpc = "emit" /\ l.state = "lexSemiColon" /\ SendDone
    /\ LexAction(lexSemiColon_rest(l))

LexPropertyName ==
    /\ Running /\ lpc = "run" /\ l.state = "lexPropertyName"
    /\ LexAction(lexPropertyName(l))

LexPropertyNameRest ==
    /\ Running /\ lpc = "emit" /\ l.state = "lexPropertyName" /\ SendDone
    /\ LexAction(lexPropertyName_rest(l))

LexLeftBracket ==
    /\ Running /\ lpc = "run" /\ l.state = "lexLeftBracket"
    /\ LexAction(lexLeftBracket(l))

LexLeftBracketRest ==
    /\ Running /\ lpc = "emit" /\ l.state = "lexLeftBracket" /\ SendDone
    /\ LexAction(lexLeftBracket_rest(l))

ErrorfRest ==
    /\ Running /\ lpc = "errorf" /\ SendDone
    /\ LexAction(errorf_rest(l))

EmitEOFRest ==
    /\ Running /\ lpc = "emitEOF" /\ SendDone
    /\ LexAction(emitEOF_rest(l))

\* lexer.nextItem, called at the top of Parse's loop
NextItem ==
    /\ Running /\ ppc = "nextItem" /\ items # <<>>
    /\ i' = Head(items)
    /\ items' = Tail(items)
    /\ lastPos' = Head(items).pos
    /\ received' = Append(received, Head(items))
    /\ ppc' = "switch"
    /\ UNCHANGED <<input, lexVars, currentNode, prop, parsingSetup,
                   parsingGame, nodeStack, gameInfo, gameTree, errors, heap,
                   history, query>>

\* the switch with a slip: it looks at the token through the channel's slot
\* when one is there, not at the copy nextItem returned
SwitchItem_shared == IF items # <<>> THEN Head(items) ELSE i

\* the token the switch looks at
SwitchItem == i

PState ==
    [currentNode |-> currentNode, prop |-> prop,
     parsingSetup |-> parsingSetup, parsingGame |-> parsingGame,
     nodeStack |-> nodeStack, gameInfo |-> gameInfo, gameTree |-> gameTree,
     errors |-> errors, heap |-> heap, ppc |-> ppc]

\* Parse runs one case of the switch, with result r
ParseAction(r) ==
    /\ currentNode' = r.currentNode
    /\ prop' = r.prop
    /\ parsingSetup' = r.parsingSetup
    /\ parsingGame' = r.parsingGame
    /\ nodeStack' = r.nodeStack
    /\ gameInfo' = r.gameInfo
    /\ gameTree' = r.gameTree
    /\ errors' = r.errors
    /\ heap' = r.heap
    /\ ppc' = r.ppc
    /\ history' = Append(history, [cur |-> r.currentNode,
                                   setup |-> r.parsingSetup,
                                   game |-> r.parsingGame,
                                   nodes |-> Len(r.heap),
                                   header |-> r.gameInfo])
    /\ UNCHANGED <<input, lexVars, items, i, received, lastPos, query>>

CaseLeftParen ==
    /\ Running /\ ppc = "switch" /\ SwitchItem.typ = itemLeftParen
    /\ ParseAction(caseLeftParen(PState))

CaseRightParen ==
    /\ Running /\ ppc = "switch" /\ SwitchItem.typ = itemRightParen
    /\ ParseAction(caseRightParen(PState))

CaseSemiColon ==
    /\ Running /\ ppc = "switch" /\ SwitchItem.typ = itemSemiColon
    /\ ParseAction(caseSemiColon(PState))

CasePropertyName ==
    /\ Running /\ ppc = "switch" /\ SwitchItem.typ = itemPropertyName
    /\ ParseAction(casePropertyName(PState, SwitchItem))

CasePropertyValue ==
    /\ Running /\ ppc = "switch" /\ SwitchItem.typ = itemPropertyValue
    /\ ParseAction(casePropertyValue(PState, SwitchItem))

CaseError ==
    /\ Running /\ ppc = "switch" /\ SwitchItem.typ = itemError
    /\ ParseAction(caseError(PState, SwitchItem))

CaseEOF ==
    /\ Running /\ ppc = "switch" /\ SwitchItem.typ = itemEOF
    /\ ParseAction(caseEOF(PState))

\* the caller of Parse calls NthNode(n) on the record returned; NthNode calls
\* NodeCount
NthNodeCall ==
    /\ Returned
    /\ \E n \in (0 - 1)..MaxQuery :
           query' = [n |-> n, count |-> NodeCount(heap, gameTree),
                     node |-> NthNode(heap, gameTree, n).node,
                     err |-> NthNode(heap, gameTree, n).err]
    /\ UNCHANGED <<input, l, lpc, items, lastPos, i, ppc, currentNode, prop,
                   parsingSetup, parsingGame, nodeStack, gameInfo, gameTree,
                   errors, heap, emitted, received, history>>

Lexer ==
    \/ LexBegin
    \/ LexLeftParen
    \/ LexLeftParenRest
    \/ LexRightParen
    \/ LexRightParenRest
    \/ LexSemiColon
    \/ LexSemiColonRest
    \/ LexPropertyName
    \/ LexPropertyNameRest
    \/ LexLeftBracket
    \/ LexLeftBracketRest
    \/ ErrorfRest
    \/ EmitEOFRest

Parser ==
    \/ NextItem
    \/ CaseLeftParen
    \/ CaseRightParen
    \/ CaseSemiColon
    \/ CasePropertyName
    \/ CasePropertyValue
    \/ CaseError
    \/ CaseEOF

Next == Lexer \/ Parser \/ NthNodeCall

Spec == Init /\ [][Next]_vars

\* the Go scheduler runs a goroutine that can run
FairSpec == Spec /\ WF_vars(Lexer) /\ WF_vars(Parser)

---------------------------------------------------------------------------
(* What the claims speak of.                                               *)

\* the nodes reached from node n of heap h by next links only, in order
RECURSIVE NextChain(_, _)
NextChain(h, n) == IF n = nil THEN <<>> ELSE <<n>> \o NextChain(h, h[n].next)

MoveBaa == Property(<<"B">>, <<"a", "a">>)
MoveWbb == Property(<<"W">>, <<"b", "b">>)
MoveWcc == Property(<<"W">>, <<"c", "c">>)
PropABaa == Property(<<"A", "B">>, <<"a", "a">>)
PropABbb == Property(<<"A", "B">>, <<"b", "b">>)

\* the Header map holds exactly key = value
HeaderIs(key, value) == DOMAIN gameInfo = {key} /\ gameInfo[key] = value

---------------------------------------------------------------------------
(* C1 *)

\* C1 (as stated): for every document (;KEY[value];B[aa]), Parse returns no
\* error, a Header mapping KEY to value, and a root node whose next node has
\* the move property B=aa.
C1_MoveOnRootsNext ==
    \A k \in HeaderKeys, v \in HeaderValues :
        (Returned /\ input = DocMove(k, v)) =>
            /\ errors = <<>>
            /\ HeaderIs(k, v)
            /\ gameTree # nil
            /\ heap[gameTree].next # nil
            /\ heap[heap[gameTree].next].point = MoveBaa

\* C1 (amended): for every document (;KEY[value];B[aa]), Parse returns no
\* error, a Header mapping KEY to value, and a tree of one node, the root,
\* whose own move property is B=aa and which has no next node.
C1_MoveOnRoot ==
    \A k \in HeaderKeys, v \in HeaderValues :
        (Returned /\ input = DocMove(k, v)) =>
            /\ errors = <<>>
            /\ HeaderIs(k, v)
            /\ gameTree # nil
            /\ heap[gameTree].point = MoveBaa
            /\ heap[gameTree].properties = <<>>
            /\ heap[gameTree].next = nil
            /\ Len(heap) = 1

C1_Witness ==
    /\ Returned
    /\ input = DocMove(<<"K", "E", "Y">>, <<"v", "a", "l", "u", "e">>)
    /\ gameTree # nil
    /\ heap[gameTree].point = MoveBaa

---------------------------------------------------------------------------
(* C2 *)

\* node n has exactly two variation children, whose own move properties are
\* W=bb and W=cc in that order, neither on the root's chain of next links
TwoMoveVariations(n) ==
    /\ Len(heap[n].variations) = 2
    /\ heap[heap[n].variations[1]].point = MoveWbb
    /\ heap[heap[n].variations[2]].point = MoveWcc
    /\ \A k \in 1..2 :
           heap[n].variations[k] \notin Range(NextChain(heap, gameTree))

\* C2 (as stated): after (;GM[1];B[aa](;W[bb])(;W[cc])) a node of the tree has
\* exactly two variation children, in input order, whose own move properties
\* are W=bb and W=cc, neither reachable from the root by next links.
C2_VariationsHoldMoves ==
    (Returned /\ input = DocVariations) =>
        \E n \in DOMAIN heap : TwoMoveVariations(n)

\* C2 (amended): after (;GM[1];B[aa](;W[bb])(;W[cc])) the node holding B=aa,
\* which is the root, has exactly two variation children, in input order; each
\* is a node with no property of its own whose next node has the move W=bb,
\* W=cc respectively, and neither child is reachable from the root by next
\* links.
C2_VariationsLeadToMoves ==
    (Returned /\ input = DocVariations) =>
        /\ errors = <<>>
        /\ gameTree # nil
        /\ heap[gameTree].point = MoveBaa
        /\ Len(heap[gameTree].variations) = 2
        /\ LET v1 == heap[gameTree].variations[1]
               v2 == heap[gameTree].variations[2]
           IN /\ v1 # v2
              /\ heap[v1].point = ZeroProperty /\ heap[v1].properties = <<>>
              /\ heap[v2].point = ZeroProperty /\ heap[v2].properties = <<>>
              /\ heap[v1].next # nil /\ heap[heap[v1].next].point = MoveWbb
              /\ heap[v2].next # nil /\ heap[heap[v2].next].point = MoveWcc
              /\ NextChain(heap, gameTree) = <<gameTree>>

C2_Witness ==
    /\ Returned
    /\ input = DocVariations
    /\ Len(heap[gameTree].variations) = 2

---------------------------------------------------------------------------
(* C3 *)

\* some node's property list holds AB=aa directly followed by AB=bb
HoldsBothAB ==
    \E n \in DOMAIN heap : \E k \in DOMAIN heap[n].properties :
        /\ k + 1 \in DOMAIN heap[n].properties
        /\ heap[n].properties[k] = PropABaa
        /\ heap[n].properties[k + 1] = PropABbb

\* C3 (as stated): whichever node of the document is written ;AB[aa][bb], the
\* first one or a later one, the record holds two entries named AB, with
\* values aa and bb in that order.
C3_TwoEntriesAnyNode ==
    (Returned /\ input \in {DocMultiTree, DocMultiHeader}) => HoldsBothAB

\* C3 (amended): a property value consumed in tree mode under a name other
\* than B and W is appended as one more entry of the current node, so a node
\* after the second semicolon written ;AB[aa][bb] holds the two entries AB=aa
\* and AB=bb in that order. In the first node of the document the same text
\* leaves the single Header entry AB=bb and no node, and under the name B or W
\* the node keeps only the last value as its move property.
C3_TwoEntriesInTree ==
    /\ [][(/\ ppc = "switch" /\ ppc' = "nextItem"
           /\ i.typ = itemPropertyValue
           /\ ~parsingSetup
           /\ prop.name \notin {<<"B">>, <<"W">>})
          => heap' = [heap EXCEPT ![currentNode].properties =
                          Append(@, Property(prop.name, i.val))]]_vars
    /\ []((Returned /\ input = DocMultiTree) =>
            /\ errors = <<>>
            /\ heap[gameTree].properties = <<PropABaa, PropABbb>>)
    /\ []((Returned /\ input = DocMultiHeader) =>
            /\ errors = <<>>
            /\ HeaderIs(<<"A", "B">>, <<"b", "b">>)
            /\ gameTree = nil /\ heap = <<>>)
    /\ []((Returned /\ input = DocMultiMove) =>
            /\ errors = <<>>
            /\ heap[gameTree].point = Property(<<"B">>, <<"b", "b">>)
            /\ heap[gameTree].properties = <<>>)

C3_Witness ==
    /\ Returned
    /\ input = DocMultiTree
    /\ Len(heap[gameTree].properties) = 2

---------------------------------------------------------------------------
(* C4 *)

\* C4: for every input, lexing and parsing finish without a run-time abort of
\* the tokenizer or of the builder.
C4_NoAbort == lpc # "panic" /\ ppc # "panic"

---------------------------------------------------------------------------
(* C5 *)

\* both goroutines have come to their end
Finished == lpc = "done" /\ ppc = "done"

\* token k of the stream is a PropertyValue whose text runs to the end of the
\* input: the document ends inside that bracketed value
UnterminatedAt(k) ==
    /\ emitted[k].typ = itemPropertyValue
    /\ emitted[k].pos + Len(emitted[k].val) = Len(l.input)

\* C5: when the document ends inside a bracketed value, as (;KEY[unterminated
\* does, nothing aborts, the only token after the value is one Error, the run
\* is never stuck before both tasks have ended, and Parse returns an error
\* list of exactly one entry whose offset is at or after the start of the
\* value's text.
C5_UnterminatedValue ==
    \A k \in DOMAIN emitted :
        UnterminatedAt(k) =>
            /\ C4_NoAbort
            /\ Finished \/ ENABLED Next
            /\ Len(emitted) <= k + 1
            /\ Len(emitted) = k + 1 =>
                   /\ emitted[k + 1].typ = itemError
                   /\ emitted[k + 1].pos >= emitted[k].pos
            /\ Returned =>
                   /\ Len(errors) = 1
                   /\ errors[1].position >= emitted[k].pos
                   /\ errors[1].position = Len(l.input)

C5_Witness ==
    /\ Finished
    /\ input = DocUnterminated
    /\ UnterminatedAt(Len(emitted) - 1)
    /\ Len(errors) = 1
    /\ errors[1].position = 18

---------------------------------------------------------------------------
(* C6 *)

Terminal(it) == it.typ = itemEOF \/ it.typ = itemError

\* C6: once the tokenizer has stopped, the token sequence it produced ends
\* with exactly one terminal token, EndOfInput or Error, and holds no other
\* terminal token.
C6_OneTerminalToken ==
    lpc \in {"done", "panic"} =>
        /\ emitted # <<>>
        /\ Terminal(emitted[Len(emitted)])
        /\ \A k \in 1..(Len(emitted) - 1) : ~Terminal(emitted[k])

---------------------------------------------------------------------------
(* C7 *)

\* C7: for every input the run goes on until the tokenizer has stopped and
\* the builder has returned: no state short of that is without a next step.
C7_NeverStuck == Finished \/ ENABLED Next

---------------------------------------------------------------------------
(* C8 *)

\* C8: the step that consumes an Error token appends exactly that one entry
\* to the error list, leaves the Header map and the tree as they were and ends
\* Parse; once Parse has ended it receives no token and changes nothing; the
\* error list never holds more than one entry.
C8_ErrorStopsBuilder ==
    /\ [][(ppc = "switch" /\ ppc' # "switch" /\ i.typ = itemError) =>
            /\ errors' = Append(errors, i.text)
            /\ ppc' = "done"
            /\ UNCHANGED <<gameInfo, gameTree, heap>>]_vars
    /\ [][Returned =>
            UNCHANGED <<ppc, received, errors, gameInfo, gameTree, heap>>]_vars
    /\ [](Len(errors) <= 1)

C8_Witness ==
    /\ Returned
    /\ Len(errors) = 1
    /\ received[Len(received)].typ = itemError
    /\ gameTree # nil
    /\ DOMAIN gameInfo # {}

---------------------------------------------------------------------------
(* C9 *)

\* the builder fed the tokens one after the other
RECURSIVE Build(_, _)
Build(P, toks) ==
    IF toks = <<>> \/ P.ppc \in {"done", "panic"}
    THEN P
    ELSE Build(Switch(P, Head(toks)), Tail(toks))

\* the record Parse builds when the tokenizer and the builder strictly
\* alternate: a function of the input text alone
Sequential(in) == Build(EmptyParse, Tokens(in).tokens)

\* C9: whatever the interleaving of the tokenizer and the builder, the Header
\* and the tree Parse returns are those of the strictly alternating run, so
\* two parses of the same document return equal Headers and equal trees.
C9_Deterministic ==
    Returned =>
        /\ gameInfo = Sequential(input).gameInfo
        /\ gameTree = Sequential(input).gameTree
        /\ heap = Sequential(input).heap
        /\ errors = Sequential(input).errors

C9_Witness ==
    /\ Returned
    /\ errors = <<>>
    /\ input = DocVariations
    /\ Len(heap) = 5

---------------------------------------------------------------------------
(* C10 *)

\* C10: at most one token is in flight; the tokens handed off are exactly the
\* tokens received followed by the one in flight, so token k+1 is not handed
\* off before token k was received and the builder receives the tokens in the
\* order emitted, none lost, none twice.
C10_SingleSlotHandoff ==
    /\ Len(items) <= 1
    /\ emitted = received \o items
    /\ ppc = "switch" => i = received[Len(received)]

C10_Witness ==
    /\ Len(items) = 1
    /\ Len(received) >= 3
    /\ ppc = "switch"

---------------------------------------------------------------------------
(* C11 *)

\* C11: once Parse has returned, the last token it received is a terminal one,
\* no token is in flight, and the tokenizer is past its last send with only its
\* return left, a step it can take alone; and while the builder waits for a
\* token with none in flight, the tokenizer has not come to its end. (After an
\* abort of the tokenizer the program has ended: nobody waits.)
C11_NoOrphanedTask ==
    /\ Returned =>
           /\ Terminal(received[Len(received)])
           /\ items = <<>>
           /\ lpc \in {"errorf", "emitEOF", "done"}
           /\ lpc # "done" => ENABLED Lexer
    /\ (ppc = "nextItem" /\ items = <<>>) => lpc # "done"

C11_Witness ==
    /\ Returned
    /\ lpc = "errorf"
    /\ received[Len(received)].typ = itemError
    /\ Len(received) >= 4

---------------------------------------------------------------------------
(* C12 *)

\* the tokens whose case of the switch has run
Consumed == SubSeq(received, 1, Len(history))

\* how many tokens of toks have type t
CountTyp(toks, t) == Cardinality({k \in DOMAIN toks : toks[k].typ = t})

\* the name a PropertyValue at index j of toks belongs to: the text of the
\* last PropertyName token before it
NameBefore(toks, j) ==
    LET ks == {k \in 1..j : toks[k].typ = itemPropertyName}
    IN IF ks = {} THEN <<>>
       ELSE toks[CHOOSE k \in ks : \A m \in ks : m <= k].val

\* the indices of the PropertyValue tokens of toks
ValuesOf(toks) == {j \in DOMAIN toks : toks[j].typ = itemPropertyValue}

\* the Header map holds every property of toks, a name given twice keeping
\* its last value, and nothing else
HeaderHoldsAll(toks) ==
    /\ DOMAIN gameInfo = {ToUpper(NameBefore(toks, j)) : j \in ValuesOf(toks)}
    /\ \A j \in ValuesOf(toks) :
           (\A m \in ValuesOf(toks) :
                (m > j) => NameBefore(toks, m) # NameBefore(toks, j))
               => gameInfo[ToUpper(NameBefore(toks, j))] = toks[j].val

\* C12: when Parse has returned and the token stream held exactly one
\* Semicolon, the record has no root node, no node was allocated, and every
\* property of the document is in the Header map (last value per name); at
\* any time a root node exists only if a second Semicolon was consumed, and
\* then the builder is in tree mode.
C12_OneSemicolonNoRoot ==
    /\ (Returned /\ CountTyp(received, itemSemiColon) = 1)
           => /\ gameTree = nil
              /\ heap = <<>>
              /\ HeaderHoldsAll(received)
    /\ gameTree # nil
           => /\ CountTyp(Consumed, itemSemiColon) >= 2
              /\ parsingGame
              /\ ~parsingSetup

C12_Witness ==
    /\ Returned
    /\ input = DocMultiHeader
    /\ CountTyp(received, itemSemiColon) = 1
    /\ gameTree = nil
    /\ gameInfo = [k \in {<<"A", "B">>} |-> <<"b", "b">>]
    /\ errors = <<>>

---------------------------------------------------------------------------
(* C13 *)

\* the least set of nodes of heap h that holds S and is closed under next
RECURSIVE NextClosure(_, _)
NextClosure(h, S) ==
    LET T == S \cup ({h[n].next : n \in S} \ {nil})
    IN IF T = S THEN S ELSE NextClosure(h, T)

\* the nodes reachable from the root by next links only
MainLine == NextClosure(heap, {gameTree} \ {nil})

\* the nodes that sit in some node's variation list
InVariationList ==
    UNION {{heap[m].variations[k] : k \in DOMAIN heap[m].variations} :
              m \in DOMAIN heap}

\* an NthNode call has been made
Queried == query # NoQuery

\* C13: NodeCount returns the number of nodes reachable from the root by
\* next links only (0 when there is no root); NthNode(n) returns an error
\* and no node when n < 1 or n > NodeCount, and otherwise no error and the
\* node reached from the root after n-1 next steps; no node on that line
\* sits in a variation list.
C13_QueriesFollowNext ==
    Queried =>
        /\ query.count = Cardinality(MainLine)
        /\ gameTree = nil => query.count = 0
        /\ (query.n < 1 \/ query.n > query.count)
               => query.err # "" /\ query.node = nil
        /\ (query.n >= 1 /\ query.n <= query.count)
               => /\ query.err = ""
                  /\ query.node = NextChain(heap, gameTree)[query.n]
                  /\ query.node \in MainLine
        /\ MainLine \cap InVariationList = {}

C13_Witness ==
    /\ Queried
    /\ query.n = 3
    /\ query.count = 3
    /\ query.err = ""
    /\ query.node = heap[heap[gameTree].next].next
    /\ InVariationList # {}
    /\ Len(heap) > query.count

---------------------------------------------------------------------------
(* C14 *)

\* LeftParens minus RightParens among the consumed tokens k..m
Depth(k, m) ==
    Cardinality({j \in k..m : Consumed[j].typ = itemLeftParen})
        - Cardinality({j \in k..m : Consumed[j].typ = itemRightParen})

\* the consumed token m is the RightParen that matches the LeftParen k
Matches(k, m) ==
    /\ k < m
    /\ Consumed[k].typ = itemLeftParen
    /\ Consumed[m].typ = itemRightParen
    /\ Depth(k, m) = 0
    /\ \A j \in k..(m - 1) : Depth(k, j) > 0

\* the consumed token k was consumed in tree mode
InTreeMode(k) == k > 1 /\ history[k - 1].game

\* every matched pair gives the current node back
PairsRestore ==
    \A k \in DOMAIN history : \A m \in DOMAIN history :
        (InTreeMode(k) /\ Matches(k, m))
            => history[m].cur = history[k - 1].cur

\* a RightParen about to be consumed in tree mode with the stack empty
StrayRightParen ==
    /\ ppc = "switch"
    /\ i.typ = itemRightParen
    /\ parsingGame
    /\ nodeStack = <<>>

\* C14: for a LeftParen consumed in tree mode and its matching RightParen,
\* at any depth, the current node right after the RightParen is the node
\* that was current right before the LeftParen; a RightParen consumed while
\* the stack is empty leaves the current node and the tree unchanged and
\* records no error.
C14_ParensRestore ==
    /\ []PairsRestore
    /\ [][StrayRightParen
             => /\ currentNode' = currentNode
                /\ heap' = heap
                /\ gameTree' = gameTree
                /\ errors' = errors
                /\ nodeStack' = <<>>
                /\ ppc' \in {"switch", "nextItem"}]_vars

C14_Witness ==
    /\ Returned
    /\ input = DocNested
    /\ \E k \in DOMAIN history : \E m \in DOMAIN history :
           /\ InTreeMode(k) /\ Matches(k, m)
           /\ Depth(1, k) = 3
           /\ history[m].cur = history[k - 1].cur
           /\ history[m].cur # gameTree
    /\ Consumed[Len(history) - 1].typ = itemRightParen
    /\ Depth(1, Len(history) - 1) = 0
    /\ ~InTreeMode(1)
    /\ history[Len(history) - 2].cur = gameTree
    /\ currentNode = gameTree
    /\ nodeStack = <<>>
    /\ errors = <<>>

---------------------------------------------------------------------------
(* C15 *)

\* the nodes node m of heap h links to, by next or by a variation slot
Successors(h, m) ==
    ({h[m].next} \ {nil})
        \cup {h[m].variations[k] : k \in DOMAIN h[m].variations}

\* the least set of nodes of heap h that holds S and is closed under next
\* and variation edges
RECURSIVE EdgeClosure(_, _)
EdgeClosure(h, S) ==
    LET T == S \cup UNION {Successors(h, m) : m \in S}
    IN IF T = S THEN S ELSE EdgeClosure(h, T)

\* the nodes linked from the root
Linked == EdgeClosure(heap, {gameTree} \ {nil})

\* the number of edges that come into node n: next links plus variation slots
InDegree(n) ==
    Cardinality({m \in DOMAIN heap : heap[m].next = n})
        + Cardinality({mk \in (DOMAIN heap) \X (1..Len(heap)) :
                          /\ mk[2] \in DOMAIN heap[mk[1]].variations
                          /\ heap[mk[1]].variations[mk[2]] = n})

\* C15: at every point of the build the nodes linked from the root by next
\* and variation edges form a tree: the root has no incoming edge, every
\* other node has exactly one (one next link or one variation slot), and no
\* node is reachable from itself.
C15_TreeShape ==
    /\ gameTree # nil => InDegree(gameTree) = 0
    /\ \A n \in Linked \ {gameTree} : InDegree(n) = 1
    /\ \A n \in Linked : n \notin EdgeClosure(heap, Successors(heap, n))

C15_Witness ==
    /\ Returned
    /\ input = DocNested
    /\ Cardinality(Linked) = 9
    /\ Len(heap[gameTree].variations) = 2
    /\ \E n \in Linked : heap[n].next # nil /\ heap[heap[n].next].variations # <<>>

---------------------------------------------------------------------------
(* C16 *)

\* token k of the stream has a token after it and that token's type is in S
NextTypIn(k, S) == k < Len(emitted) => emitted[k + 1].typ \in S

\* C16: in the token stream of any input, the token right after a LeftParen
\* is a Semicolon or an Error, the token right after a Semicolon is a
\* PropertyName or an Error, the token right after a PropertyName is a
\* PropertyValue or an Error, and every PropertyValue is directly preceded
\* by a PropertyName or by another PropertyValue.
C16_TokenOrder ==
    \A k \in DOMAIN emitted :
        /\ emitted[k].typ = itemLeftParen
               => NextTypIn(k, {itemSemiColon, itemError})
        /\ emitted[k].typ = itemSemiColon
               => NextTypIn(k, {itemPropertyName, itemError})
        /\ emitted[k].typ = itemPropertyName
               => NextTypIn(k, {itemPropertyValue, itemError})
        /\ emitted[k].typ = itemPropertyValue
               => /\ k > 1
                  /\ emitted[k - 1].typ
                         \in {itemPropertyName, itemPropertyValue}

C16_Witness ==
    /\ lpc = "done"
    /\ input = DocNoSemicolon
    /\ \E k \in DOMAIN emitted :
           emitted[k].typ = itemLeftParen /\ k < Len(emitted)
               /\ emitted[k + 1].typ = itemError
    /\ \E k \in DOMAIN emitted :
           emitted[k].typ = itemSemiColon /\ k < Len(emitted)
               /\ emitted[k + 1].typ = itemPropertyName
    /\ \E k \in DOMAIN emitted :
           emitted[k].typ = itemPropertyName /\ k < Len(emitted)
               /\ emitted[k + 1].typ = itemPropertyValue
    /\ \E k \in DOMAIN emitted :
           emitted[k].typ = itemPropertyValue /\ k > 1
               /\ emitted[k - 1].typ = itemPropertyValue

---------------------------------------------------------------------------
(* C17 *)

\* s is a non-empty run of uppercase letters
UpperName(s) == s # <<>> /\ \A k \in DOMAIN s : s[k] \in Range(UpperLetters)

\* C17 (as stated): every PropertyName token carries the uppercased text of
\* a non-empty run of letters, so every Header key and every node property
\* name is an uppercase name, and in tree mode a property named B or W is
\* the node's move property, never an entry of its property list.
C17_NamesUppercase ==
    /\ \A k \in DOMAIN emitted :
           emitted[k].typ = itemPropertyName => UpperName(emitted[k].val)
    /\ \A key \in DOMAIN gameInfo : UpperName(key)
    /\ \A n \in DOMAIN heap :
           /\ heap[n].point # ZeroProperty
                  => heap[n].point.name \in {<<"B">>, <<"W">>}
           /\ \A k \in DOMAIN heap[n].properties :
                  /\ UpperName(heap[n].properties[k].name)
                  /\ heap[n].properties[k].name \notin {<<"B">>, <<"W">>}

---------------------------------------------------------------------------
(* C18 *)

\* the offset in the scanned text of the semicolon a Semicolon token stands
\* for: the last character of its text
SemiAt(tok) == tok.pos + Len(tok.val) - 1

\* the Semicolon token tok stands for a pair: its semicolon is directly
\* followed by a second semicolon and then a letter
Doubled(tok) ==
    /\ tok.typ = itemSemiColon
    /\ SemiAt(tok) + 2 < Len(l.input)
    /\ l.input[SemiAt(tok) + 2] = ";"
    /\ isAlpha(l.input[SemiAt(tok) + 3])

\* the builder's mode after k tokens: 0 Idle, 1 Header, 2 tree mode
ModeAfter(k) ==
    IF k = 0 THEN 0
    ELSE IF history[k].game THEN 2
    ELSE IF history[k].setup THEN 1 ELSE 0

\* the number of nodes allocated after k tokens
NodesAfter(k) == IF k = 0 THEN 0 ELSE history[k].nodes

\* C18: a Semicolon token that stands for two consecutive semicolons
\* followed by a property name is followed by that PropertyName token, not
\* by a second Semicolon or an Error; consuming the pair, the builder makes
\* one mode transition or creates one node, not two; and the document
\* (;;GM[1];;B[aa]) gives the record of (;GM[1];B[aa]).
C18_DoubledSemicolon ==
    /\ \A k \in DOMAIN emitted :
           (Doubled(emitted[k]) /\ k < Len(emitted))
               => /\ emitted[k + 1].typ = itemPropertyName
                  /\ emitted[k + 1].pos = SemiAt(emitted[k]) + 2
                  /\ UpperName(emitted[k + 1].val)
    /\ \A k \in DOMAIN history :
           (Doubled(Consumed[k]) /\ k < Len(history))
               => /\ Consumed[k + 1].typ = itemPropertyName
                  /\ ModeAfter(k + 1) = ModeAfter(k)
                  /\ NodesAfter(k + 1) = NodesAfter(k)
                  /\ \/ ModeAfter(k - 1) = 0 /\ ModeAfter(k) = 1
                           /\ NodesAfter(k) = NodesAfter(k - 1)
                     \/ ModeAfter(k - 1) = 1 /\ ModeAfter(k) = 2
                           /\ NodesAfter(k) = NodesAfter(k - 1) + 1
                     \/ ModeAfter(k - 1) = 2 /\ ModeAfter(k) = 2
                           /\ NodesAfter(k) = NodesAfter(k - 1) + 1
    /\ (Returned /\ input = DocDoubled)
           => PState = Sequential(DocMove(<<"G", "M">>, <<"1">>))

C18_Witness ==
    /\ Returned
    /\ input = DocDoubled
    /\ Cardinality({k \in DOMAIN emitted : Doubled(emitted[k])}) = 2
    /\ CountTyp(received, itemSemiColon) = 2
    /\ errors = <<>>
    /\ Len(heap) = 1
    /\ heap[gameTree].point = MoveBaa

---------------------------------------------------------------------------
(* C19 *)

\* the builder's mode: 0 Idle, 1 Header, 2 tree mode
Mode == IF parsingGame THEN 2 ELSE IF parsingSetup THEN 1 ELSE 0

\* a PropertyValue about to be consumed in Header mode
HeaderValue ==
    /\ ppc = "switch"
    /\ i.typ = itemPropertyValue
    /\ Mode = 1

\* C19: the builder's mode only moves forward, Idle to Header to tree mode,
\* one step at a time and never back, and the two flags are never set
\* together; a PropertyValue consumed in Header mode changes the Header map
\* only, by the one entry for the pending name, and creates or modifies no
\* node; once the builder is in tree mode no step changes the Header map.
C19_ModesForward ==
    /\ [](~(parsingSetup /\ parsingGame))
    /\ [][Mode' \in {Mode, Mode + 1} /\ Mode' <= 2]_vars
    /\ [][(HeaderValue /\ ppc' # ppc)
             => /\ heap' = heap
                /\ gameTree' = gameTree
                /\ currentNode' = currentNode
                /\ nodeStack' = nodeStack
                /\ errors' = errors
                /\ Mode' = Mode
                /\ gameInfo' = [k \in DOMAIN gameInfo \cup {ToUpper(prop.name)}
                                  |-> IF k = ToUpper(prop.name)
                                      THEN i.val ELSE gameInfo[k]]]_vars
    /\ [][Mode = 2 => gameInfo' = gameInfo]_vars

C19_Witness ==
    /\ Returned
    /\ input = DocMainLine
    /\ Mode = 2
    /\ \E k \in DOMAIN history :
           /\ Consumed[k].typ = itemPropertyValue
           /\ ModeAfter(k) = 1
           /\ history[k].header = gameInfo
           /\ NodesAfter(k) = 0
    /\ DOMAIN gameInfo = {<<"G", "M">>}
    /\ Len(heap) = 3

---------------------------------------------------------------------------
(* C20 *)

\* a Semicolon about to be consumed in tree mode
TreeSemicolon ==
    /\ ppc = "switch"
    /\ i.typ = itemSemiColon
    /\ parsingGame

\* C20: whenever a Semicolon is consumed in tree mode the current node has
\* no next node, so NewNode overwrites no link; and at every point of the
\* build every node allocated so far is reachable from the root through
\* next and variation edges, unmatched parentheses included.
C20_NoNodeLost ==
    /\ TreeSemicolon => (currentNode # nil /\ heap[currentNode].next = nil)
    /\ parsingGame => (currentNode # nil /\ heap[currentNode].next = nil)
    /\ \A n \in Range(nodeStack) : n # nil /\ heap[n].next = nil
    /\ Linked = DOMAIN heap

C20_Witness ==
    /\ Returned
    /\ Len(heap) >= 4
    /\ Depth(1, Len(history)) # 0
    /\ \E k \in DOMAIN history :
           /\ k > 2
           /\ Consumed[k].typ = itemSemiColon
           /\ Consumed[k - 1].typ = itemRightParen
           /\ history[k - 1].cur # history[k - 2].cur
           /\ heap[history[k - 1].cur].next = history[k].cur
    /\ Linked = DOMAIN heap

=============================================================================
